---- MODULE Spec2Model ----
(***************************************************************************)
(* Duty_Scheduler: InternScheduler.solve (src/scheduler.py) as a state     *)
(* machine.  A date is its position 1..Len(dates) in self.dates; dates[j]  *)
(* is that date's weekday() number (0 = Monday .. 5 = Saturday, 6 =        *)
(* Sunday).  An intern is a number 1..n; self.interns starts as <<1..n>>.  *)
(***************************************************************************)
EXTENDS Integers, Sequences, FiniteSets, TLC

\* ---------------------------------------------------------------- bounds
MaxDays == 2
MaxInterns == 2
MaxUnits == 3
MaxMinInterns == 2
MaxSpacing == 1
\* an infeasible solve reports arbitrary values: at most this many of them are 1
MaxStrayOnes == 1

\* Python's None, comparable with every list and dict of the model
None == [i \in {-1} |-> "None"]
\* the local is not assigned yet
Unset == 0

VARIABLES
    dates,                  \* self.dates
    interns,                \* self.interns
    units_per_intern,       \* self.units_per_intern
    min_interns_per_duty,   \* self.min_interns_per_duty
    minimum_spacing,        \* self.minimum_spacing
    pc,                     \* position inside solve
    error,                  \* the exception solve ended with, or "none"
    shuffled_interns,       \* local shuffled_interns
    weekend_distribution,   \* local weekend_distribution: intern -> <<sat, sun>>
    remainder_saturdays,    \* local remainder_saturdays
    remainder_sundays,      \* local remainder_sundays
    for_index,              \* position of the for loop in shuffled_interns
    status,                 \* "unsolved", then what prob.solve() found
    intern_vars,            \* value of the variables: intern -> set of dates at 1
    schedule,               \* self.schedule
    intern_metrics          \* self.intern_metrics

vars == <<dates, interns, units_per_intern, min_interns_per_duty, minimum_spacing,
          pc, error, shuffled_interns, weekend_distribution,
          remainder_saturdays, remainder_sundays, for_index, status, intern_vars,
          schedule, intern_metrics>>

inputs == <<dates, units_per_intern, min_interns_per_duty, minimum_spacing>>

\* ---------------------------------------------------------------- helpers
Range(s) == {s[i] : i \in DOMAIN s}

Identity(n) == [i \in 1..n |-> i]

\* the orders random.shuffle can leave a list in: every permutation
Shuffles(s) ==
    {t \in [DOMAIN s -> Range(s)] : \A i, j \in DOMAIN s : i # j => t[i] # t[j]}

\* pd.date_range(start, end): consecutive days; empty when end < start
generate_dates(start_weekday, ndays) ==
    [j \in 1..ndays |-> (start_weekday + j - 1) % 7]

DateIdx == DOMAIN dates

get_units_for_day(wd) == IF wd = 5 THEN 2 ELSE IF wd = 6 THEN 3 ELSE 1

RECURSIVE SumOver(_, _)
SumOver(f, S) ==
    IF S = {} THEN 0
    ELSE LET x == CHOOSE y \in S : TRUE IN f[x] + SumOver(f, S \ {x})

calculate_total_required_units ==
    SumOver([j \in DateIdx |-> get_units_for_day(dates[j])], DateIdx)

total_intern_units == SumOver(units_per_intern, DOMAIN units_per_intern)

\* verify_units without its elif branch
verify_units_no_staffing(total_required_units_) ==
    total_intern_units < total_required_units_

\* verify_units: TRUE when it raises ValueError
verify_units_raises(total_required_units) ==
    LET total_required_units_interns == total_required_units * min_interns_per_duty
    IN  IF total_intern_units < total_required_units THEN TRUE
        ELSE IF total_intern_units < total_required_units_interns THEN TRUE
        ELSE FALSE

num_saturdays == Cardinality({j \in DateIdx : dates[j] = 5})
num_sundays == Cardinality({j \in DateIdx : dates[j] = 6})

\* ------------------------------------------- fairness pre-distribution
expected_saturdays == (num_saturdays * min_interns_per_duty) \div Len(interns)
expected_sundays == (num_sundays * min_interns_per_duty) \div Len(interns)

initial_remainder_saturdays == (num_saturdays * min_interns_per_duty) % Len(interns)
initial_remainder_sundays == (num_sundays * min_interns_per_duty) % Len(interns)

initial_weekend_distribution ==
    [i \in Range(interns) |-> <<expected_saturdays, expected_sundays>>]

\* the condition written with >= in place of >
WhileConditionNonNegative(rs, ru) == rs >= 0 /\ ru >= 0

\* line 92: the condition of the while loop
WhileCondition(rs, ru) == rs > 0 /\ ru > 0

GiveSaturday(wd, intern) == [wd EXCEPT ![intern] = <<@[1] + 1, @[2]>>]

GiveSunday(wd, intern) == [wd EXCEPT ![intern] = <<@[1], @[2] + 1>>]

\* the for loop stuck on the first intern
FirstIntern(order, idx) == order[1]

\* line 93: the intern the for loop is at
CurrentIntern(order, idx) == order[idx]

\* One step of the loop of lines 92-103 on L = [at, rs, ru, wd, idx]:
\* at = "while" tests the while condition, at = "for" runs one iteration of
\* the for loop over order, at = "built" is past the loop.
LoopStep(L, order) ==
    IF L.at = "while"
    THEN IF WhileCondition(L.rs, L.ru)
         THEN [L EXCEPT !.at = "for", !.idx = 1]
         ELSE [L EXCEPT !.at = "built"]
    ELSE IF L.idx > Len(order)
    THEN [L EXCEPT !.at = "while"]
    ELSE IF L.rs = 0 /\ L.ru = 0
    THEN [L EXCEPT !.at = "while"]
    ELSE IF L.rs > 0
    THEN [L EXCEPT !.wd = GiveSaturday(L.wd, CurrentIntern(order, L.idx)),
                   !.rs = L.rs - 1, !.idx = L.idx + 1]
    ELSE IF L.ru > 0
    THEN [L EXCEPT !.wd = GiveSunday(L.wd, CurrentIntern(order, L.idx)),
                   !.ru = L.ru - 1, !.idx = L.idx + 1]
    ELSE [L EXCEPT !.idx = L.idx + 1]

LoopStart ==
    [at |-> "while", rs |-> initial_remainder_saturdays,
     ru |-> initial_remainder_sundays, wd |-> initial_weekend_distribution,
     idx |-> Unset]

RECURSIVE RunLoop(_, _)
RunLoop(L, order) ==
    IF L.at = "built" THEN L ELSE RunLoop(LoopStep(L, order), order)

\* the weekend_distribution lines 90-103 compute when shuffled_interns = order
DistributionFor(order) == RunLoop(LoopStart, order).wd

\* ---------------------------------------------------- constraint model
\* An assignment x maps each intern to the set of dates whose variable is 1.
MinInternsConstraint(x) ==
    \A d \in DateIdx :
        Cardinality({i \in DOMAIN x : d \in x[i]}) >= min_interns_per_duty

UnitsConstraint(s, i) ==
    SumOver([j \in DateIdx |-> get_units_for_day(dates[j])], s) = units_per_intern[i]

SaturdayConstraint(s, i, wd) == Cardinality({j \in s : dates[j] = 5}) = wd[i][1]

SundayConstraint(s, i, wd) == Cardinality({j \in s : dates[j] = 6}) = wd[i][2]

\* the spacing loop run once, for the last intern of self.interns only
SpacingLastInternOnly(s, i) ==
    (i = interns[Len(interns)]) =>
        \A j \in DateIdx : \A k \in 1..minimum_spacing :
            (j + k <= Len(dates)) => ~(j \in s /\ (j + k) \in s)

\* the constraint with range(1, minimum_spacing): the last offset left out
SpacingExclusive(s, i) ==
    \A j \in DateIdx : \A k \in 1..(minimum_spacing - 1) :
        (j + k <= Len(dates)) => ~(j \in s /\ (j + k) \in s)

\* lines 113-119
SpacingConstraint(s, i) ==
    \A j \in DateIdx : \A k \in 1..minimum_spacing :
        (j + k <= Len(dates)) => ~(j \in s /\ (j + k) \in s)

\* the date sets one intern can hold under the per-intern constraints
InternChoices(i, wd) ==
    {s \in SUBSET DateIdx :
        /\ UnitsConstraint(s, i)
        /\ SaturdayConstraint(s, i, wd)
        /\ SundayConstraint(s, i, wd)
        /\ SpacingConstraint(s, i)}

RECURSIVE Combine(_, _)
Combine(k, wd) ==
    IF k = 0 THEN {<<>>}
    ELSE {Append(x, s) : x \in Combine(k - 1, wd), s \in InternChoices(k, wd)}

\* every assignment the constraint set of lines 63-119 admits
Solutions(wd) == {x \in Combine(Len(interns), wd) : MinInternsConstraint(x)}

Feasible(wd) == Solutions(wd) # {}

\* Values an infeasible solve can leave in the variables: nothing is promised
\* about them; bounded to at most MaxStrayOnes variables at 1.
RECURSIVE PairSets(_, _)
PairSets(k, pairs) ==
    IF k = 0 THEN {{}}
    ELSE LET prev == PairSets(k - 1, pairs)
         IN  prev \cup {P \cup {q} : P \in prev, q \in pairs}

StrayValues ==
    {[i \in 1..Len(interns) |-> {d \in DateIdx : <<i, d>> \in P}] :
        P \in PairSets(MaxStrayOnes, (1..Len(interns)) \X DateIdx)}

\* ------------------------------------------------------------- metrics
\* lines 133-137: the intern's shifts, in date order
Shifts(x, i) == SelectSeq(Identity(Len(dates)), LAMBDA j : j \in x[i])

RECURSIVE UnitsUsed(_)
UnitsUsed(shifts) ==
    IF shifts = <<>> THEN 0
    ELSE get_units_for_day(dates[Head(shifts)]) + UnitsUsed(Tail(shifts))

RECURSIVE ConsecutiveSpacing(_, _)
ConsecutiveSpacing(shifts, j) ==
    IF j > Len(shifts) THEN 0
    ELSE (shifts[j] - shifts[j - 1]) + ConsecutiveSpacing(shifts, j + 1)

\* lines 149-151
total_spacing(shifts) ==
    (shifts[1] - 1) + (Len(dates) - shifts[Len(shifts)]) + ConsecutiveSpacing(shifts, 2)

\* the total divided by the number of shifts
average_spacing_per_shift(shifts) ==
    IF shifts # <<>> THEN <<total_spacing(shifts), Len(shifts)>> ELSE None

\* lines 147-155; the quotient a / b is kept as the pair <<a, b>>
average_spacing(shifts) ==
    IF shifts # <<>> THEN <<total_spacing(shifts), Len(shifts) + 1>> ELSE None

Metrics(x, i) ==
    LET shifts == Shifts(x, i)
    IN  [total_units_used |-> UnitsUsed(shifts),
         average_spacing |-> average_spacing(shifts),
         num_shifts |-> Len(shifts),
         weekdays |-> Len(SelectSeq(shifts, LAMBDA j : dates[j] < 5)),
         saturdays |-> Len(SelectSeq(shifts, LAMBDA j : dates[j] = 5)),
         sundays |-> Len(SelectSeq(shifts, LAMBDA j : dates[j] = 6))]

\* lines 125, 137: each date's interns on duty, in the order of self.interns
ScheduleOf(x) == [d \in DateIdx |-> SelectSeq(interns, LAMBDA i : d \in x[i])]

\* -------------------------------------------------------------- inputs
Input(start, ndays, units, m, spacing) ==
    [start |-> start, ndays |-> ndays, units |-> units, min_interns |-> m,
     spacing |-> spacing]

\* Interns are interchangeable names, so the quotas are listed in
\* non-decreasing order of intern number.
QuotaLists ==
    {units \in UNION {[1..n -> 0..MaxUnits] : n \in 0..MaxInterns} :
        \A i \in DOMAIN units : i > 1 => units[i - 1] <= units[i]}

\* The code tells weekdays apart only as weekday() < 5, so a horizon that
\* holds no Saturday and no Sunday is taken to start on a Monday.
Horizons ==
    {h \in (0..6) \X (0..MaxDays) : h[1] = 0 \/ h[1] + h[2] > 5}

SmallInputs ==
    {Input(h[1], h[2], units, m, spacing) :
        h \in Horizons, units \in QuotaLists,
        m \in 0..MaxMinInterns, spacing \in 0..MaxSpacing}

\* the scenarios the specification names
\* a week from Monday, quotas A:4 B:3 C:3, staffing 1, spacing 1
WeekScenario == Input(0, 7, <<4, 3, 3>>, 1, 1)
\* 2 interns, 10 days, spacing 9, 5 duty-days each
SpacingScenario == Input(0, 10, <<6, 7>>, 1, 9)
\* 40 required units, staffing 2, quotas summing to 39
CapacityScenario == Input(0, 28, <<13, 13, 13>>, 2, 1)
\* a weekend staffed by 2 of 3 interns: both remainders are 2
WeekendScenario == Input(5, 2, <<4, 3, 3>>, 2, 0)

\* Friday to Sunday, 2 interns with the same quota, without and with spacing
LongWeekendScenarios == {Input(4, 3, <<3, 3>>, 1, spacing) : spacing \in {0, 1}}

Scenarios ==
    {WeekScenario, SpacingScenario, CapacityScenario, WeekendScenario}
        \cup LongWeekendScenarios

Inputs == SmallInputs \cup Scenarios

\* __init__ (lines 12-21)
Init ==
    \E in \in Inputs :
        /\ dates = generate_dates(in.start, in.ndays)
        /\ interns = Identity(Len(in.units))
        /\ units_per_intern = in.units
        /\ min_interns_per_duty = in.min_interns
        /\ minimum_spacing = in.spacing
        /\ pc = "verify"
        /\ error = "none"
        /\ shuffled_interns = None
        /\ weekend_distribution = None
        /\ remainder_saturdays = Unset
        /\ remainder_sundays = Unset
        /\ for_index = Unset
        /\ status = "unsolved"
        /\ intern_vars = None
        /\ schedule = None
        /\ intern_metrics = None

\* ------------------------------------------------------------- actions
\* lines 49-50
VerifyUnits ==
    /\ pc = "verify"
    /\ IF verify_units_raises(calculate_total_required_units)
       THEN pc' = "raised" /\ error' = "ValueError"
       ELSE pc' = "shuffle" /\ error' = error
    /\ UNCHANGED <<inputs, interns, shuffled_interns, weekend_distribution,
                   remainder_saturdays, remainder_sundays, for_index, status,
                   intern_vars, schedule, intern_metrics>>

\* lines 53-57, with randomize at its default True (as src/app.py line 33 calls it)
ShuffleInterns ==
    /\ pc = "shuffle"
    /\ shuffled_interns' \in Shuffles(interns)
    /\ interns' \in Shuffles(interns)
    /\ pc' = "build"
    /\ UNCHANGED <<inputs, error, weekend_distribution, remainder_saturdays,
                   remainder_sundays, for_index, status, intern_vars, schedule,
                   intern_metrics>>

\* lines 60-90: the model is created, then the divisions by len(self.interns)
BuildModel ==
    /\ pc = "build"
    /\ IF Len(interns) = 0
       THEN /\ pc' = "raised"
            /\ error' = "ZeroDivisionError"
            /\ UNCHANGED <<weekend_distribution, remainder_saturdays,
                           remainder_sundays>>
       ELSE /\ pc' = "while"
            /\ error' = error
            /\ weekend_distribution' = LoopStart.wd
            /\ remainder_saturdays' = LoopStart.rs
            /\ remainder_sundays' = LoopStart.ru
    /\ UNCHANGED <<inputs, interns, shuffled_interns, for_index, status,
                   intern_vars, schedule, intern_metrics>>

LoopNow ==
    [at |-> pc, rs |-> remainder_saturdays, ru |-> remainder_sundays,
     wd |-> weekend_distribution, idx |-> for_index]

LoopTo(L) ==
    /\ pc' = L.at
    /\ remainder_saturdays' = L.rs
    /\ remainder_sundays' = L.ru
    /\ weekend_distribution' = L.wd
    /\ for_index' = L.idx
    /\ UNCHANGED <<inputs, interns, error, shuffled_interns, status, intern_vars,
                   schedule, intern_metrics>>

\* line 92
WhileTest ==
    /\ pc = "while"
    /\ LoopTo(LoopStep(LoopNow, shuffled_interns))

\* lines 93-103: one iteration of the for loop, or its end
ForStep ==
    /\ pc = "for"
    /\ LoopTo(LoopStep(LoopNow, shuffled_interns))

\* lines 105-165: the remaining constraints, prob.solve(), whose status the
\* code never reads, and the extraction of the schedule and the metrics
SolveAndExtract ==
    /\ pc = "built"
    /\ IF Feasible(weekend_distribution)
       THEN status' = "Optimal" /\ intern_vars' \in Solutions(weekend_distribution)
       ELSE status' = "Infeasible" /\ intern_vars' \in StrayValues
    /\ schedule' = ScheduleOf(intern_vars')
    /\ intern_metrics' = [i \in Range(interns) |-> Metrics(intern_vars', i)]
    /\ pc' = "done"
    /\ UNCHANGED <<inputs, interns, error, shuffled_interns, weekend_distribution,
                   remainder_saturdays, remainder_sundays, for_index>>

Next ==
    \/ VerifyUnits
    \/ ShuffleInterns
    \/ BuildModel
    \/ WhileTest
    \/ ForStep
    \/ SolveAndExtract

Spec == Init /\ [][Next]_vars

\* ============================================================== claims
total_required_units == calculate_total_required_units

\* non-empty intern list, end_date >= start_date, positive quotas and staffing
ValidInput ==
    /\ Len(interns) >= 1
    /\ Len(dates) >= 1
    /\ \A i \in DOMAIN units_per_intern : units_per_intern[i] > 0
    /\ min_interns_per_duty > 0
    /\ minimum_spacing >= 0

\* the dates self.schedule puts intern i on duty
OnDuty(i) == {d \in DOMAIN schedule : i \in Range(schedule[d])}

CoverageHolds == \A d \in DOMAIN schedule : Len(schedule[d]) >= min_interns_per_duty

QuotaHolds ==
    \A i \in Range(interns) :
        SumOver([d \in DateIdx |-> get_units_for_day(dates[d])], OnDuty(i))
            = units_per_intern[i]

WeekendTargetsHold ==
    \A i \in Range(interns) :
        /\ Cardinality({d \in OnDuty(i) : dates[d] = 5}) = weekend_distribution[i][1]
        /\ Cardinality({d \in OnDuty(i) : dates[d] = 6}) = weekend_distribution[i][2]

SpacingHolds ==
    \A i \in Range(interns) : \A d1, d2 \in OnDuty(i) :
        d1 < d2 => d2 - d1 > minimum_spacing

\* C1: for valid inputs, a schedule that solve leaves in self.schedule covers
\* every date with at least min_interns_per_duty interns, matches every quota
\* and every weekend target exactly, and keeps the minimum spacing.
C1_ScheduleInvariants ==
    (pc = "done" /\ ValidInput) =>
        (CoverageHolds /\ QuotaHolds /\ WeekendTargetsHold /\ SpacingHolds)

SaturdayTargets == SumOver([i \in Range(interns) |-> weekend_distribution[i][1]], Range(interns))
SundayTargets == SumOver([i \in Range(interns) |-> weekend_distribution[i][2]], Range(interns))

\* C2: when the remainder loop has ended both remainders are zero and the
\* Saturday (Sunday) targets sum to num_saturdays (num_sundays) times
\* min_interns_per_duty.
C2_RemaindersExhausted ==
    (pc \in {"built", "done"} /\ ValidInput) =>
        /\ remainder_saturdays = 0
        /\ remainder_sundays = 0
        /\ SaturdayTargets = num_saturdays * min_interns_per_duty
        /\ SundayTargets = num_sundays * min_interns_per_duty

\* C3: when the constraint set admits no assignment, solve ends in a failure
\* and leaves no schedule and no metrics behind.
C3_InfeasibleSurfaced ==
    (status = "Infeasible" /\ ValidInput) =>
        (error # "none" /\ schedule = None /\ intern_metrics = None)

\* C4: verify_units raises ValueError exactly when U < T or U < T * M; it does
\* so before any shuffle, model or solver call, leaving self.schedule and
\* self.intern_metrics None and self.interns in its order; otherwise the
\* pre-check passes.
C4_PreCheck ==
    LET T == total_required_units
        M == min_interns_per_duty
        U == total_intern_units
        short == U < T \/ U < T * M
    IN  /\ (pc # "verify" /\ short) =>
            /\ pc = "raised"
            /\ error = "ValueError"
            /\ schedule = None
            /\ intern_metrics = None
            /\ interns = Identity(Len(interns))
            /\ shuffled_interns = None
            /\ weekend_distribution = None
            /\ status = "unsolved"
        /\ (pc # "verify" /\ U >= T * M /\ U >= T) => error # "ValueError"

\* 40 required units, staffing 2, quotas summing to 39: solve has failed
C4_Witness ==
    /\ pc = "raised"
    /\ error = "ValueError"
    /\ total_required_units = 40
    /\ min_interns_per_duty = 2
    /\ total_intern_units = 39

UniformQuotas ==
    \A i, j \in DOMAIN units_per_intern : units_per_intern[i] = units_per_intern[j]

InWeekScenario ==
    /\ dates = generate_dates(0, 7)
    /\ units_per_intern = <<4, 3, 3>>
    /\ min_interns_per_duty = 1
    /\ minimum_spacing = 1

WeekOutcome ==
    /\ schedule # None
    /\ DOMAIN schedule = 1..7
    /\ \A d \in DOMAIN schedule : Len(schedule[d]) = 1
    /\ \A i \in Range(interns) :
           intern_metrics[i].total_units_used = units_per_intern[i]

C7_ZeroInternsRejected ==
    (Len(interns) = 0 /\ pc \notin {"verify", "shuffle", "build"}) =>
        (pc = "raised" /\ error = "ValueError")

InvalidInput ==
    \/ \E i \in DOMAIN units_per_intern : units_per_intern[i] <= 0
    \/ min_interns_per_duty <= 0
    \/ Len(dates) = 0

\* C8: an input with a non-positive quota, a non-positive minimum staffing or
\* an end date before the start date fails before the model is constructed.
C8_InvalidInputRejected ==
    InvalidInput => pc \in {"verify", "shuffle", "build", "raised"}

Abs(n) == IF n < 0 THEN -n ELSE n

\* C9: after the pre-distribution any two interns' Saturday targets differ by
\* at most 1, and so do any two interns' Sunday targets.
C9_TargetsWithinOne ==
    pc \in {"built", "done"} =>
        \A i, j \in Range(interns) :
            /\ Abs(weekend_distribution[i][1] - weekend_distribution[j][1]) <= 1
            /\ Abs(weekend_distribution[i][2] - weekend_distribution[j][2]) <= 1

\* the loop has run and handed out an extra Saturday and an extra Sunday
C9_Witness ==
    /\ pc = "built"
    /\ \E i, j \in Range(interns) :
           weekend_distribution[i][1] = weekend_distribution[j][1] + 1
    /\ \E i, j \in Range(interns) :
           weekend_distribution[i][2] = weekend_distribution[j][2] + 1

RECURSIVE SumPairs(_)
SumPairs(P) ==
    IF P = {} THEN 0
    ELSE LET q == CHOOSE r \in P : TRUE IN (q[2] - q[1]) + SumPairs(P \ {q})

\* the gaps of a non-empty set S of dates: from the first date of the horizon
\* to the first of S, between neighbours in S, from the last of S to the last
\* date
GapTotal(S) ==
    LET first == CHOOSE d \in S : \A e \in S : d <= e
        last == CHOOSE d \in S : \A e \in S : e <= d
        neighbours == {q \in S \X S : q[1] < q[2] /\ ~\E c \in S : q[1] < c /\ c < q[2]}
    IN  (first - 1) + SumPairs(neighbours) + (Len(dates) - last)

\* C10: in the metrics, average_spacing of an intern with shifts is the total
\* of the gaps divided by num_shifts + 1, average_spacing of an intern with no
\* shift is None, and num_shifts = weekdays + saturdays + sundays, counted
\* over the dates the schedule gives the intern.
C10_Metrics ==
    pc = "done" =>
        \A i \in Range(interns) :
            LET m == intern_metrics[i]
                S == OnDuty(i)
            IN  /\ S # {} => m.average_spacing = <<GapTotal(S), m.num_shifts + 1>>
                /\ S = {} => m.average_spacing = None
                /\ m.num_shifts = Cardinality(S)
                /\ m.num_shifts = m.weekdays + m.saturdays + m.sundays
                /\ m.weekdays = Cardinality({d \in S : dates[d] < 5})
                /\ m.saturdays = Cardinality({d \in S : dates[d] = 5})
                /\ m.sundays = Cardinality({d \in S : dates[d] = 6})

\* solve has ended with one intern on several shifts and one on none
C10_Witness ==
    /\ pc = "done"
    /\ \E i \in Range(interns) : intern_metrics[i].num_shifts >= 2
    /\ \E i \in Range(interns) : intern_metrics[i].num_shifts = 0

InLoop == pc \in {"while", "for"}

\* the extra slots the loop has handed out so far
HandedOut ==
    (initial_remainder_saturdays - remainder_saturdays)
        + (initial_remainder_sundays - remainder_sundays)

\* the targets above the baseline, over all interns
ExtraTargets ==
    (SaturdayTargets - Len(interns) * expected_saturdays)
        + (SundayTargets - Len(interns) * expected_sundays)

\* A measure of the work the loop has left: every step of the loop lowers it,
\* so the loop ends after at most LoopRank steps.
LoopRank ==
    IF pc = "while" THEN 3 * (remainder_saturdays + remainder_sundays) + 2
    ELSE IF pc = "for"
    THEN 3 * (remainder_saturdays + remainder_sundays)
             + (IF for_index = 1 THEN 1 ELSE 3)
    ELSE 0

\* a step that changes a target takes exactly 1 from exactly one remainder
OneSlotStep ==
    (weekend_distribution' # weekend_distribution) =>
        \/ /\ remainder_saturdays' = remainder_saturdays - 1
           /\ remainder_sundays' = remainder_sundays
        \/ /\ remainder_saturdays' = remainder_saturdays
           /\ remainder_sundays' = remainder_sundays - 1

\* C11: with at least one intern and starting remainders in 0 .. n-1, the
\* remainder loop terminates (each of its steps lowers LoopRank, which is never
\* negative), it hands out at most remainder_saturdays + remainder_sundays
\* extra slots, every step that changes a target takes exactly 1 from exactly
\* one remainder, and no remainder goes below zero.
C11_LoopBounded ==
    [][InLoop =>
        /\ Len(interns) >= 1
        /\ initial_remainder_saturdays \in 0..(Len(interns) - 1)
        /\ initial_remainder_sundays \in 0..(Len(interns) - 1)
        /\ LoopRank' < LoopRank
        /\ LoopRank' >= 0
        /\ OneSlotStep
        /\ remainder_saturdays' >= 0
        /\ remainder_sundays' >= 0
        /\ HandedOut' = ExtraTargets'
        /\ HandedOut' <= initial_remainder_saturdays + initial_remainder_sundays
      ]_vars

\* the loop has ended after handing out several slots, with a remainder left
C11_Witness ==
    /\ pc = "built"
    /\ HandedOut >= 3
    /\ remainder_sundays > 0

====
